---- MODULE Spec2Model ----
(***************************************************************************)
(* Model of git_repo_manager.py: a command-line tool that sets up a main   *)
(* and a sub git repository, links the sub repository as a remote of the   *)
(* main one and runs commit / push / pull / merge / sync on them.          *)
(*                                                                         *)
(* One invocation of the tool is one pass of the process through main():   *)
(* Start parses the arguments and dispatches, every call of run_command is *)
(* one step (subprocess.run blocks until the command has ended), and the   *)
(* process ends in pc = "exited" with an exit code.  The two directories   *)
(* on disk outlive the process; a later invocation finds them as the       *)
(* earlier ones left them.                                                 *)
(***************************************************************************)
EXTENDS Integers, Sequences, FiniteSets, TLC

\* ------------------------------------------------------------------ bounds
\* Number of invocations of the tool in one behaviour.
MaxRuns == 3
\* Largest number of commits a repository's history is followed to.
MaxCommits == 2

\* --------------------------------------------------------------- constants
\* Working directory the tool is started in.
Cwd == "/home/user"
\* Values of --main-dir and --sub-dir (argparse defaults, lines 138-139).
MainDirNames == {"main_repo"}
SubDirNames == {"sub_repo"}
DirNames == MainDirNames \cup SubDirNames
\* Values of --main-repo / --sub-repo; "" is "not given" (argparse None).
NoURL == ""
MainURLs == {NoURL, "https://example.org/main.git"}
SubURLs == {NoURL, "https://example.org/sub.git"}
\* The module-level defaults of lines 8-9, and the empty setting the code
\* tests for at lines 37, 41 and 148.
DefaultMainURL == "https://github.com/SE1020-IT2070-OOP-DSA-25/project-Bashitha-Weerapperuma.git"
DefaultSubURL == "https://github.com/Bashitha-Weerapperuma/AF-SE1020-Production.git"
Actions == {"setup", "commit", "push", "pull", "merge", "sync"}
Branches == {"main", "dev"}
NoBranch == ""
SourceBranches == {NoBranch, "feature"}

\* os.path.abspath (line 73): a relative name becomes the path below the
\* process's working directory.  An absolute path is the pair of that
\* directory and the name, so it never equals the relative name.
abspath(rel) == <<Cwd, rel>>
\* A remote's target is a pair too: a URL, or a path.
URLTarget(u) == <<"url", u>>
NoTarget == <<"", "">>
Dirs == {abspath(n) : n \in DirNames}

VARIABLES
    mainGitHubURL,  \* module global, line 8: as shipped, or emptied
    subGitHubURL,   \* module global, line 9: as shipped, or emptied
    args,           \* the parsed command line (line 141)
    pc,             \* where the process is
    exitCode,       \* -1 while no process has exited, else its exit status
    cmds,           \* the external commands this invocation has issued
    remotes_out,    \* local `remotes` of add_sub_repo_as_remote (line 76)
    repos,          \* the directories on disk
    pre,            \* repos as the running invocation found them
    trail,          \* the stages this invocation has passed through
    setupDone,      \* an earlier invocation completed setup (line 155)
    runs            \* invocations started so far

vars == <<mainGitHubURL, subGitHubURL, args, pc, exitCode, cmds, remotes_out,
          repos, pre, trail, setupDone, runs>>

\* ------------------------------------------------------------- directories
\* A directory that holds no repository.
EmptyDir ==
    [state |-> "uninitialized", remotes |-> {}, commits |-> 0,
     dirty |-> FALSE, staged |-> FALSE, conflicted |-> FALSE,
     branch |-> NoBranch, received |-> 0]

\* A repository somebody made before the tool was first run, with the given
\* remotes.
ExistingRepo(rs) ==
    [EmptyDir EXCEPT !.state = "cloned", !.remotes = rs, !.commits = 1,
                     !.branch = "main"]

\* (variant: the test for an existing repository is left out)
HasGitDirNever(rel) == FALSE

\* os.path.exists(os.path.join(dir, ".git")), lines 46 and 57.
HasGitDir(rel) == repos[abspath(rel)].state # "uninitialized"

RemoteNamesOf(d) == {r[1] : r \in repos[d].remotes}
TargetsOf(d, name) == {r[2] : r \in {q \in repos[d].remotes : q[1] = name}}

\* ---------------------------------------------------- the external command
\* A command line handed to run_command, with the cwd= it is given ("None"
\* when the call passes no cwd) and the outcome `ok` once it has run.
Command(name, cwd) ==
    [name |-> name, cwd |-> cwd, dir |-> "", remote |-> "", branch |-> "",
     target |-> NoTarget, ok |-> FALSE]

\* The directory a command works on: `git clone URL DIR` names it, every
\* other command runs in its cwd.
WorkDir(c) == IF c.name = "clone" THEN abspath(c.dir) ELSE abspath(c.cwd)

\* Whether git can end with status 0 on the command in the present state of
\* the disk.  (It may also fail where it could succeed: network, rejection,
\* conflict, unknown branch.)
CanSucceed(c) ==
    LET d == WorkDir(c)
        r == repos[d]
        isRepo == r.state # "uninitialized"
        reachable(t) == \/ t[1] = "url"
                        \/ t \in Dirs /\ repos[t].state # "uninitialized"
    IN  CASE c.name = "clone" -> ~isRepo
          [] c.name = "init" -> TRUE
          [] c.name = "remote" -> isRepo
          [] c.name = "remote set-url" -> isRepo /\ c.remote \in RemoteNamesOf(d)
          [] c.name = "remote add" -> isRepo /\ c.remote \notin RemoteNamesOf(d)
          [] c.name = "add" -> isRepo
          [] c.name = "commit" -> isRepo /\ r.staged /\ r.commits < MaxCommits
          [] c.name \in {"push", "pull"} ->
                /\ isRepo
                /\ c.remote \in RemoteNamesOf(d)
                /\ \A t \in TargetsOf(d, c.remote) : reachable(t)
          [] c.name = "checkout" -> isRepo /\ c.branch # NoBranch
          [] c.name = "merge" -> isRepo /\ c.branch # NoBranch
          [] OTHER -> FALSE

Outcomes(c) == IF CanSucceed(c) THEN {TRUE, FALSE} ELSE {FALSE}

Grown(n) == IF n < MaxCommits THEN n + 1 ELSE n

\* What the command leaves on disk.  `flag` is the part of the outcome the
\* tool does not see: whether a successful pull or merge brought new
\* commits, whether a failed one left the working tree in conflict (the
\* unmerged files are pending changes then).
Git(c, ok, flag) ==
    LET d == WorkDir(c)
        r == repos[d]
    IN  IF ~ok
        THEN IF c.name \in {"pull", "merge"} /\ r.state # "uninitialized" /\ flag
             THEN [repos EXCEPT ![d].conflicted = TRUE, ![d].dirty = TRUE]
             ELSE repos
        ELSE CASE c.name = "clone" ->
                    [repos EXCEPT ![d] =
                        [EmptyDir EXCEPT !.state = "cloned",
                                         !.remotes = {<<"origin", c.target>>},
                                         !.commits = 1, !.branch = "main"]]
               [] c.name = "init" ->
                    IF r.state = "uninitialized"
                    THEN [repos EXCEPT ![d] =
                            [EmptyDir EXCEPT !.state = "initialized-empty",
                                             !.branch = "main"]]
                    ELSE repos
               [] c.name = "remote set-url" ->
                    [repos EXCEPT ![d].remotes =
                        {q \in r.remotes : q[1] # c.remote}
                            \cup {<<c.remote, c.target>>}]
               [] c.name = "remote add" ->
                    [repos EXCEPT ![d].remotes = r.remotes \cup {<<c.remote, c.target>>}]
               [] c.name = "add" ->
                    [repos EXCEPT ![d].staged = r.staged \/ r.dirty,
                                  ![d].dirty = FALSE]
               [] c.name = "commit" ->
                    [repos EXCEPT ![d].commits = r.commits + 1,
                                  ![d].staged = FALSE,
                                  ![d].conflicted = FALSE]
               [] c.name = "push" ->
                    [t \in Dirs |->
                        IF t \in TargetsOf(d, c.remote)
                        THEN [repos[t] EXCEPT !.received = r.commits]
                        ELSE repos[t]]
               [] c.name \in {"pull", "merge"} ->
                    IF flag THEN [repos EXCEPT ![d].commits = Grown(r.commits)]
                    ELSE repos
               [] c.name = "checkout" ->
                    [repos EXCEPT ![d].branch = c.branch]
               [] OTHER -> repos

\* ------------------------------------------------------------- run_command
\* Exit statuses: the status of a process whose main() returns (line 177),
\* sys.exit(1) of line 27, and sys.exit(1) of lines 151 and 169 (and 65).
ExitOK == 0

\* (variant: the error path exits with the status of a normal end)
FailStatusOfSuccess == ExitOK

FailStatus == 1

\* (variant: a configuration error is printed, the status stays 0)
ConfigErrorStatusOfSuccess == ExitOK

ConfigErrorStatus == 1

\* The stage of an invocation, by the function the process is in: before
\* the start, in setup_repositories, in add_sub_repo_as_remote, in the
\* function of one of the five other actions, ended with status 0, or
\* ended by an error.
StateOf(p, status) ==
    CASE p = "idle" -> "Idle"
      [] p = "exited" -> IF status = ExitOK THEN "Idle" ELSE "Aborted"
      [] p \in {"provision_main", "provision_sub"} -> "Provisioning"
      [] p \in {"link_list", "link_set"} -> "Linked"
      [] p \in {"commit_add", "commit_commit"} -> "Committing"
      [] p = "push" -> "Pushing"
      [] p = "pull" -> "Pulling"
      [] p \in {"merge_checkout", "merge_merge"} -> "Merging"
      [] p \in {"sync_push", "sync_checkout", "sync_pull"} -> "Syncing"

Visit(t, stage) == IF t[Len(t)] = stage THEN t ELSE Append(t, stage)

\* (variant: the status is not looked at, check=False)
RaisesNever(ok) == FALSE

\* subprocess.run(..., check=True) raises CalledProcessError on a non-zero
\* status (lines 15-24).
Raises(ok) == ~ok

\* (variant: a command that failed is run a second time before giving up)
run_command_retrying(c, next, ok, flag) ==
    /\ ok \in Outcomes(c)
    /\ cmds' = Append(cmds, [c EXCEPT !.ok = ok])
    /\ repos' = Git(c, ok, flag)
    /\ IF Raises(ok)
       THEN IF cmds # <<>> /\ ~cmds[Len(cmds)].ok
            THEN pc' = "exited" /\ exitCode' = FailStatus
            ELSE pc' = pc /\ exitCode' = exitCode
       ELSE pc' = next /\ exitCode' = (IF next = "exited" THEN ExitOK ELSE exitCode)
    /\ trail' = Visit(trail, StateOf(pc', exitCode'))

\* run_command (lines 12-27): the command runs to its end; a failure prints
\* and exits with status 1, a success returns to the caller, which goes on
\* at `next` ("exited" when the call was the last statement of main()).
\* A command that cannot be started (its cwd is missing) ends the process
\* the same way, by the exception nobody catches.
run_command(c, next, ok, flag) ==
    /\ ok \in Outcomes(c)
    /\ cmds' = Append(cmds, [c EXCEPT !.ok = ok])
    /\ repos' = Git(c, ok, flag)
    /\ IF Raises(ok)
       THEN pc' = "exited" /\ exitCode' = FailStatus
       ELSE pc' = next /\ exitCode' = (IF next = "exited" THEN ExitOK ELSE exitCode)
    /\ trail' = Visit(trail, StateOf(pc', exitCode'))

\* ------------------------------------------------------------------ main()
\* The command lines: every option with its values; an option the chosen
\* action never reads is left at its argparse default (lines 131-139).
Reads(action, option) ==
    CASE option \in {"main_repo", "sub_repo"} -> action = "setup"
      [] option = "branch" -> action \in {"push", "pull", "merge", "sync"}
      [] option = "source_branch" -> action = "merge"
      [] OTHER -> TRUE

ArgSpace ==
    {a \in [action : Actions, main_repo : MainURLs, sub_repo : SubURLs,
            branch : Branches, source_branch : SourceBranches,
            main_dir : MainDirNames, sub_dir : SubDirNames] :
        /\ ~Reads(a.action, "main_repo") => a.main_repo = NoURL
        /\ ~Reads(a.action, "sub_repo") => a.sub_repo = NoURL
        /\ ~Reads(a.action, "branch") => a.branch = "main"
        /\ ~Reads(a.action, "source_branch") => a.source_branch = NoBranch}

\* (variant: the default is never consulted)
OrDefaultIgnored(url, default) == url

\* `a if a else b` of lines 144-145, and the same fallback of lines 37-43.
OrDefault(url, default) == IF url # NoURL THEN url ELSE default

main_repo == OrDefault(args.main_repo, mainGitHubURL)
sub_repo == OrDefault(args.sub_repo, subGitHubURL)

\* (variants: the checks of the required arguments are left out)
SetupConfigErrorUnchecked(a) == FALSE
MergeConfigErrorUnchecked(a) == FALSE

\* Line 148: setup without any sub repository URL.
SetupConfigError(a) == OrDefault(a.sub_repo, subGitHubURL) = NoURL
\* Line 167: merge without --source-branch.
MergeConfigError(a) == a.source_branch = NoBranch

\* (variant: every action provisions the repositories before its own work)
DispatchProvisioning(a) ==
    IF a.action = "merge" /\ MergeConfigError(a) THEN "config_error"
    ELSE IF a.action = "setup" /\ SetupConfigError(a) THEN "config_error"
    ELSE IF a.action = "sync" THEN "sync_push"
    ELSE "provision_main"

\* The first statement main() reaches for the chosen action (lines 147-173);
\* "config_error" is the sys.exit(1) of lines 151 and 169.
Dispatch(a) ==
    CASE a.action = "setup" ->
            IF SetupConfigError(a) THEN "config_error" ELSE "provision_main"
      [] a.action = "commit" -> "commit_add"
      [] a.action = "push" -> "push"
      [] a.action = "pull" -> "pull"
      [] a.action = "merge" ->
            IF MergeConfigError(a) THEN "config_error" ELSE "merge_checkout"
      [] a.action = "sync" -> "sync_push"

\* The statement that follows each run_command call once it has returned,
\* in the function that made it; "exited" after the last statement of
\* main().
Flow ==
    [provision_main |-> "provision_sub",
     provision_sub |-> "link_list",
     link_list |-> "link_set",
     link_set |-> "exited",
     commit_add |-> "commit_commit",
     commit_commit |-> "exited",
     push |-> "exited",
     pull |-> "exited",
     merge_checkout |-> "merge_merge",
     merge_merge |-> "exited",
     sync_push |-> "sync_checkout",
     sync_checkout |-> "sync_pull",
     sync_pull |-> "exited"]

\* (variant: the branch of setup falls through into the next one, `if`
\* for `elif` with the action rebound)
FollowingFallsThrough(p) == [Flow EXCEPT !.link_set = "commit_add"][p]

\* (variant: setup links the remote before it provisions the sub repository)
FollowingLinkFirst(p) ==
    [Flow EXCEPT !.provision_main = "link_list", !.link_set = "provision_sub",
                 !.provision_sub = "exited"][p]

\* (variant: sync_repos starts over after its pull)
FollowingAgain(p) == [Flow EXCEPT !.sync_pull = "sync_push"][p]

\* (variant: sync_repos pulls before it checks the branch out)
FollowingPullFirst(p) ==
    [Flow EXCEPT !.sync_push = "sync_pull", !.sync_pull = "sync_checkout",
                 !.sync_checkout = "exited"][p]

\* (variant: commit_changes returns after staging)
FollowingAddOnly(p) == [Flow EXCEPT !.commit_add = "exited"][p]

Following(p) == Flow[p]

\* The disk before the tool is first run: the main directory is missing, or
\* holds a clone with an origin, or one that already has a remote named
\* subrepo pointing somewhere else, or one with remotes whose names look
\* like subrepo (sub, subrepo2) but none of that name; the sub directory is
\* missing or holds a clone.
OldSubrepoTarget == <<"/srv/old", "sub_repo">>
InitialMainDirs ==
    {EmptyDir,
     ExistingRepo({<<"origin", URLTarget(DefaultMainURL)>>}),
     ExistingRepo({<<"origin", URLTarget(DefaultMainURL)>>,
                   <<"subrepo", OldSubrepoTarget>>}),
     ExistingRepo({<<"origin", URLTarget(DefaultMainURL)>>,
                   <<"sub", OldSubrepoTarget>>,
                   <<"subrepo2", OldSubrepoTarget>>})}
InitialSubDirs ==
    {EmptyDir, ExistingRepo({<<"origin", URLTarget(DefaultSubURL)>>})}

NoArgs ==
    [action |-> "setup", main_repo |-> NoURL, sub_repo |-> NoURL,
     branch |-> "main", source_branch |-> NoBranch,
     main_dir |-> "main_repo", sub_dir |-> "sub_repo"]

Init ==
    /\ mainGitHubURL \in {DefaultMainURL, NoURL}
    /\ subGitHubURL \in {DefaultSubURL, NoURL}
    /\ args = NoArgs
    /\ pc = "idle"
    /\ exitCode = -1
    /\ cmds = <<>>
    /\ remotes_out = <<>>
    /\ \E m \in InitialMainDirs, s \in InitialSubDirs :
          repos = [d \in Dirs |-> IF d = abspath("main_repo") THEN m ELSE s]
    /\ pre = repos
    /\ trail = <<"Idle">>
    /\ setupDone = FALSE
    /\ runs = 0

\* The invocation that has just ended was a setup that reached line 155.
SetupCompleted == pc = "exited" /\ args.action = "setup" /\ exitCode = ExitOK

\* Between two invocations the operator edits files of the main repository:
\* the pending changes `git add .` (line 88) picks up.  The process that
\* ran before is gone by then.
EditWorkingTree ==
    /\ pc \in {"idle", "exited"}
    /\ runs < MaxRuns
    /\ \E n \in MainDirNames :
          /\ repos[abspath(n)].state # "uninitialized"
          /\ ~repos[abspath(n)].dirty
          /\ repos' = [repos EXCEPT ![abspath(n)].dirty = TRUE]
    /\ pc' = "idle"
    /\ args' = NoArgs
    /\ exitCode' = -1
    /\ cmds' = <<>>
    /\ pre' = repos'
    /\ trail' = <<"Idle">>
    /\ setupDone' = (setupDone \/ SetupCompleted)
    /\ UNCHANGED <<mainGitHubURL, subGitHubURL, remotes_out, runs>>

\* The tool is started: main() parses the command line and dispatches on
\* --action (lines 129-173); the two configuration errors exit at once.
Start ==
    /\ pc \in {"idle", "exited"}
    /\ runs < MaxRuns
    /\ \E a \in ArgSpace :
          /\ args' = a
          /\ IF Dispatch(a) = "config_error"
             THEN pc' = "exited" /\ exitCode' = ConfigErrorStatus
             ELSE pc' = Dispatch(a) /\ exitCode' = -1
    /\ runs' = runs + 1
    /\ cmds' = <<>>
    /\ remotes_out' = <<>>
    /\ pre' = repos
    /\ trail' = Visit(<<"Idle">>, StateOf(pc', exitCode'))
    /\ setupDone' = (setupDone \/ SetupCompleted)
    /\ UNCHANGED <<mainGitHubURL, subGitHubURL, repos>>

\* ----------------------------------------------------- setup_repositories
CloneCmd(url, dir) ==
    [Command("clone", "None") EXCEPT !.target = URLTarget(url), !.dir = dir]

\* Lines 33-54 (main_repo_url is main()'s main_repo; the fallback of lines
\* 37-38 gives the same value again).
ProvisionMain ==
    /\ pc = "provision_main"
    /\ IF HasGitDir(args.main_dir)
       THEN /\ pc' = Following(pc)
            /\ trail' = Visit(trail, StateOf(pc', exitCode))
            /\ UNCHANGED <<exitCode, cmds, repos>>
       ELSE \E ok, flag \in BOOLEAN :
              IF main_repo # NoURL
              THEN run_command(CloneCmd(main_repo, args.main_dir),
                               Following(pc), ok, flag)
              ELSE run_command(Command("init", args.main_dir),
                               Following(pc), ok, flag)
    /\ UNCHANGED <<mainGitHubURL, subGitHubURL, args, remotes_out, pre,
                   setupDone, runs>>

\* Lines 56-67.
ProvisionSub ==
    /\ pc = "provision_sub"
    /\ IF HasGitDir(args.sub_dir)
       THEN /\ pc' = Following(pc)
            /\ trail' = Visit(trail, StateOf(pc', exitCode))
            /\ UNCHANGED <<exitCode, cmds, repos>>
       ELSE IF sub_repo # NoURL
            THEN \E ok, flag \in BOOLEAN :
                    run_command(CloneCmd(sub_repo, args.sub_dir),
                                Following(pc), ok, flag)
            ELSE /\ pc' = "exited"
                 /\ exitCode' = ConfigErrorStatus
                 /\ trail' = Visit(trail, StateOf(pc', exitCode'))
                 /\ UNCHANGED <<cmds, repos>>
    /\ UNCHANGED <<mainGitHubURL, subGitHubURL, args, remotes_out, pre,
                   setupDone, runs>>

\* ------------------------------------------------- add_sub_repo_as_remote
\* remote_name keeps its default (line 70; main() passes none, line 154).
remote_name == "subrepo"

\* Standard output of `git remote`: the configured names in git's
\* (alphabetical) order, each followed by a line feed.  A text is the
\* sequence of its words and line feeds.
LF == "\n"
KnownRemoteNames == <<"origin", "sub", "subrepo", "subrepo2">>
IsConfigured(rel, name) == name \in RemoteNamesOf(abspath(rel))
RECURSIVE Lines(_)
Lines(names) ==
    IF names = <<>> THEN <<>>
    ELSE <<Head(names), LF>> \o Lines(Tail(names))
RemoteListing(rel) ==
    LET Keep(name) == IsConfigured(rel, name)
    IN  Lines(SelectSeq(KnownRemoteNames, Keep))

\* result.stdout.strip() (line 23): no white space at either end.
RECURSIVE strip(_)
strip(text) ==
    IF text = <<>> THEN text
    ELSE IF Head(text) = LF THEN strip(Tail(text))
    ELSE IF text[Len(text)] = LF THEN strip(SubSeq(text, 1, Len(text) - 1))
    ELSE text

\* remotes.split() (line 77): the list of the words of the text.
split(text) ==
    LET IsWord(t) == t # LF
    IN  SelectSeq(text, IsWord)

\* Line 76.
LinkList ==
    /\ pc = "link_list"
    /\ \E ok, flag \in BOOLEAN :
          /\ run_command(Command("remote", args.main_dir), Following(pc), ok, flag)
          /\ remotes_out' = IF ok THEN strip(RemoteListing(args.main_dir))
                            ELSE remotes_out
    /\ UNCHANGED <<mainGitHubURL, subGitHubURL, args, pre, setupDone, runs>>

\* The characters of a word.
Spelling(word) ==
    CASE word = "origin" -> <<"o", "r", "i", "g", "i", "n">>
      [] word = "sub" -> <<"s", "u", "b">>
      [] word = "subrepo" -> <<"s", "u", "b", "r", "e", "p", "o">>
      [] word = "subrepo2" -> <<"s", "u", "b", "r", "e", "p", "o", "2">>
      [] word = LF -> <<LF>>

\* Python's `a in b` on two strings: a is a run of consecutive characters
\* of b.
IsInfix(a, b) ==
    \E k \in 0..(Len(b) - Len(a)) : SubSeq(b, k + 1, k + Len(a)) = a

\* (variant: `remote_name in remotes`, the test on the text itself)
RemoteExistsInText(name, text) ==
    \E i \in DOMAIN text : IsInfix(Spelling(name), Spelling(text[i]))

\* Line 77: `remote_name in remotes.split()`.
RemoteExists(name, text) == \E i \in DOMAIN split(text) : split(text)[i] = name

\* (variant: the path is linked as given)
sub_repo_rel_path == <<"", args.sub_dir>>

\* Line 73.
sub_repo_abs_path == abspath(args.sub_dir)

\* Lines 77-82, and the return to main() (line 155).
LinkSet ==
    /\ pc = "link_set"
    /\ \E ok, flag \in BOOLEAN :
          /\ IF RemoteExists(remote_name, remotes_out)
             THEN run_command([Command("remote set-url", args.main_dir)
                                 EXCEPT !.remote = remote_name,
                                        !.target = sub_repo_abs_path],
                              Following(pc), ok, flag)
             ELSE run_command([Command("remote add", args.main_dir)
                                 EXCEPT !.remote = remote_name,
                                        !.target = sub_repo_abs_path],
                              Following(pc), ok, flag)
    /\ remotes_out' = <<>>
    /\ UNCHANGED <<mainGitHubURL, subGitHubURL, args, pre, setupDone, runs>>

\* ---------------------------------------------------------- commit_changes
\* Line 88.
CommitAdd ==
    /\ pc = "commit_add"
    /\ \E ok, flag \in BOOLEAN :
          run_command(Command("add", args.main_dir), Following(pc), ok, flag)
    /\ UNCHANGED <<mainGitHubURL, subGitHubURL, args, remotes_out, pre,
                   setupDone, runs>>

\* Lines 89-91.
CommitCommit ==
    /\ pc = "commit_commit"
    /\ \E ok, flag \in BOOLEAN :
          run_command(Command("commit", args.main_dir), Following(pc), ok, flag)
    /\ UNCHANGED <<mainGitHubURL, subGitHubURL, args, remotes_out, pre,
                   setupDone, runs>>

\* ------------------------------------------------ push_to_repo, pull_from_repo
\* Lines 94-99.
push_to_repo(source_dir, remote, branch, next, ok, flag) ==
    run_command([Command("push", source_dir) EXCEPT !.remote = remote,
                                                    !.branch = branch],
                next, ok, flag)

\* Lines 102-107.
pull_from_repo(target_dir, remote, branch, next, ok, flag) ==
    run_command([Command("pull", target_dir) EXCEPT !.remote = remote,
                                                    !.branch = branch],
                next, ok, flag)

\* Line 161.
Push ==
    /\ pc = "push"
    /\ \E ok, flag \in BOOLEAN :
          push_to_repo(args.main_dir, "subrepo", args.branch, Following(pc), ok, flag)
    /\ UNCHANGED <<mainGitHubURL, subGitHubURL, args, remotes_out, pre,
                   setupDone, runs>>

\* (variant: the pull action pulls into the sub directory, as sync does)
PullInSubDir ==
    /\ pc = "pull"
    /\ \E ok, flag \in BOOLEAN :
          pull_from_repo(args.sub_dir, "origin", args.branch, Following(pc), ok, flag)
    /\ UNCHANGED <<mainGitHubURL, subGitHubURL, args, remotes_out, pre,
                   setupDone, runs>>

\* Line 164.
Pull ==
    /\ pc = "pull"
    /\ \E ok, flag \in BOOLEAN :
          pull_from_repo(args.main_dir, "origin", args.branch, Following(pc), ok, flag)
    /\ UNCHANGED <<mainGitHubURL, subGitHubURL, args, remotes_out, pre,
                   setupDone, runs>>

\* ---------------------------------------------------------- merge_branches
\* Line 113 (target_branch is args.branch, line 170).
MergeCheckout ==
    /\ pc = "merge_checkout"
    /\ \E ok, flag \in BOOLEAN :
          run_command([Command("checkout", args.main_dir) EXCEPT !.branch = args.branch],
                      Following(pc), ok, flag)
    /\ UNCHANGED <<mainGitHubURL, subGitHubURL, args, remotes_out, pre,
                   setupDone, runs>>

\* (variant: the merge names the target branch, the one just checked out)
MergeMergeOfTarget ==
    /\ pc = "merge_merge"
    /\ \E ok, flag \in BOOLEAN :
          run_command([Command("merge", args.main_dir) EXCEPT !.branch = args.branch],
                      Following(pc), ok, flag)
    /\ UNCHANGED <<mainGitHubURL, subGitHubURL, args, remotes_out, pre,
                   setupDone, runs>>

\* Lines 114-116.
MergeMerge ==
    /\ pc = "merge_merge"
    /\ \E ok, flag \in BOOLEAN :
          run_command([Command("merge", args.main_dir) EXCEPT !.branch = args.source_branch],
                      Following(pc), ok, flag)
    /\ UNCHANGED <<mainGitHubURL, subGitHubURL, args, remotes_out, pre,
                   setupDone, runs>>

\* -------------------------------------------------------------- sync_repos
\* (variant: sync_repos hands its branch on to pull_from_repo)
PullBranchOfSync == args.branch

\* The default branch of pull_from_repo (line 102), which line 126 leaves in
\* place, as it does the default remote.
PullDefaultRemote == "origin"
PullDefaultBranch == "main"

\* Line 122 (remote_name is "subrepo", line 173).
SyncPush ==
    /\ pc = "sync_push"
    /\ \E ok, flag \in BOOLEAN :
          push_to_repo(args.main_dir, "subrepo", args.branch, Following(pc), ok, flag)
    /\ UNCHANGED <<mainGitHubURL, subGitHubURL, args, remotes_out, pre,
                   setupDone, runs>>

\* Line 125.
SyncCheckout ==
    /\ pc = "sync_checkout"
    /\ \E ok, flag \in BOOLEAN :
          run_command([Command("checkout", args.sub_dir) EXCEPT !.branch = args.branch],
                      Following(pc), ok, flag)
    /\ UNCHANGED <<mainGitHubURL, subGitHubURL, args, remotes_out, pre,
                   setupDone, runs>>

\* Line 126.
SyncPull ==
    /\ pc = "sync_pull"
    /\ \E ok, flag \in BOOLEAN :
          pull_from_repo(args.sub_dir, PullDefaultRemote, PullDefaultBranch,
                         Following(pc), ok, flag)
    /\ UNCHANGED <<mainGitHubURL, subGitHubURL, args, remotes_out, pre,
                   setupDone, runs>>

\* ----------------------------------------------------------- specification
Next ==
    \/ EditWorkingTree
    \/ Start
    \/ ProvisionMain
    \/ ProvisionSub
    \/ LinkList
    \/ LinkSet
    \/ CommitAdd
    \/ CommitCommit
    \/ Push
    \/ Pull
    \/ MergeCheckout
    \/ MergeMerge
    \/ SyncPush
    \/ SyncCheckout
    \/ SyncPull

Spec == Init /\ [][Next]_vars

\* The steps of a running process.  Every one is a call of subprocess.run
\* (or a test between two calls): once the command returns, the process
\* goes on, so a step that can be taken is taken.
Step ==
    \/ ProvisionMain
    \/ ProvisionSub
    \/ LinkList
    \/ LinkSet
    \/ CommitAdd
    \/ CommitCommit
    \/ Push
    \/ Pull
    \/ MergeCheckout
    \/ MergeMerge
    \/ SyncPush
    \/ SyncCheckout
    \/ SyncPull

FairSpec == Spec /\ WF_vars(Step)

\* -------------------------------------------------------------- typing
TypeOK ==
    /\ pc \in {"idle", "exited", "provision_main", "provision_sub", "link_list",
               "link_set", "commit_add", "commit_commit", "push", "pull",
               "merge_checkout", "merge_merge", "sync_push", "sync_checkout",
               "sync_pull"}
    /\ exitCode \in {-1, 0, 1}
    /\ args \in ArgSpace
    /\ runs \in 0..MaxRuns
    /\ \A d \in Dirs : repos[d].commits \in 0..MaxCommits

\* ================================================================== claims
MainDir == abspath(args.main_dir)
SubDir == abspath(args.sub_dir)
Exited == pc = "exited"
Is(c, name, cwd) == c.name = name /\ c.cwd = cwd

\* C1.  Fatal on failure: whatever the action and the position of a command
\* in its sequence, a command that returned a non-zero status is the last
\* command of the invocation, and the process has exited with a non-zero
\* status.
C1_FatalOnFailure ==
    \A i \in 1..Len(cmds) :
        ~cmds[i].ok => /\ i = Len(cmds)
                       /\ Exited
                       /\ exitCode # ExitOK /\ exitCode # -1

\* A setup whose second command (the clone of the sub repository) failed
\* after the first had succeeded.
C1_Witness ==
    /\ Exited /\ args.action = "setup"
    /\ Len(cmds) = 2 /\ cmds[1].ok /\ ~cmds[2].ok

\* C2.  sync issues push (main directory, remote subrepo, the branch), then
\* checkout of the branch in the sub directory, then pull in the sub
\* directory; the checkout is issued only after the push has returned
\* success, the pull only after the checkout has, and a step is issued only
\* when every earlier one has returned.
C2_SyncOrder ==
    args.action = "sync" =>
        LET n == Len(cmds)
        IN  /\ n <= 3
            /\ n >= 1 => /\ Is(cmds[1], "push", args.main_dir)
                         /\ cmds[1].remote = "subrepo"
                         /\ cmds[1].branch = args.branch
            /\ n >= 2 => /\ cmds[1].ok
                         /\ Is(cmds[2], "checkout", args.sub_dir)
                         /\ cmds[2].branch = args.branch
            /\ n >= 3 => /\ cmds[2].ok
                         /\ Is(cmds[3], "pull", args.sub_dir)
            /\ pc = "sync_push" => n = 0
            /\ pc = "sync_checkout" => n = 1
            /\ pc = "sync_pull" => n = 2
            /\ pc \in {"sync_push", "sync_checkout", "sync_pull", "exited"}

\* A sync that ran its three steps to the end.
C2_Witness ==
    /\ Exited /\ args.action = "sync" /\ exitCode = ExitOK
    /\ Len(cmds) = 3 /\ args.branch = "dev"

\* C3.  A sync whose push succeeded and whose pull failed has exited with a
\* non-zero status; the repository the push went to still holds what was
\* pushed; nothing was issued after the pull; the sub repository's history
\* is the one the invocation found.
C3_SyncPullFailure ==
    (args.action = "sync" /\ Len(cmds) >= 3 /\ cmds[1].ok /\ ~cmds[3].ok) =>
        /\ Exited /\ exitCode # ExitOK /\ exitCode # -1
        /\ Len(cmds) = 3
        /\ \A t \in TargetsOf(MainDir, "subrepo") :
              t \in Dirs /\ repos[t].received = pre[MainDir].commits
        /\ repos[SubDir].commits = pre[SubDir].commits

\* A sync whose pull failed after a push that changed what the sub
\* repository had received.
C3_Witness ==
    /\ Exited /\ args.action = "sync"
    /\ Len(cmds) = 3 /\ cmds[1].ok /\ cmds[2].ok /\ ~cmds[3].ok
    /\ repos[SubDir].received # pre[SubDir].received
    /\ repos[SubDir].conflicted

\* C4 as stated.  A setup with no --main-repo and with --sub-repo, on two
\* directories that hold no repository, that ended with status 0: init was
\* issued in the main directory and no clone of it; the main directory is an
\* empty repository, the sub directory a clone of the sub URL, and main's
\* only remote is subrepo, pointing at the sub directory's absolute path.
ScenarioA ==
    /\ Exited /\ args.action = "setup" /\ exitCode = ExitOK
    /\ args.main_repo = NoURL /\ args.sub_repo # NoURL
    /\ pre[MainDir].state = "uninitialized"
    /\ pre[SubDir].state = "uninitialized"

SubClonedAndLinked ==
    /\ repos[SubDir].state = "cloned"
    /\ repos[SubDir].remotes = {<<"origin", URLTarget(args.sub_repo)>>}
    /\ \E i \in 1..Len(cmds) :
          /\ cmds[i].name = "clone" /\ cmds[i].dir = args.sub_dir
          /\ cmds[i].target = URLTarget(args.sub_repo)
    /\ Cardinality({r \in repos[MainDir].remotes : r[1] = "subrepo"}) = 1
    /\ TargetsOf(MainDir, "subrepo") = {abspath(args.sub_dir)}

MainInitialized ==
    /\ Is(cmds[1], "init", args.main_dir)
    /\ \A i \in 1..Len(cmds) :
          ~(cmds[i].name = "clone" /\ cmds[i].dir = args.main_dir)
    /\ repos[MainDir].state = "initialized-empty"
    /\ RemoteNamesOf(MainDir) = {"subrepo"}

MainClonedFrom(url) ==
    /\ cmds[1].name = "clone" /\ cmds[1].dir = args.main_dir
    /\ cmds[1].target = URLTarget(url)
    /\ \A i \in 1..Len(cmds) : cmds[i].name # "init"
    /\ repos[MainDir].state = "cloned"
    /\ RemoteNamesOf(MainDir) = {"origin", "subrepo"}
    /\ TargetsOf(MainDir, "origin") = {URLTarget(url)}

C4_Original ==
    ScenarioA => MainInitialized /\ SubClonedAndLinked

\* C4, amended.  In the same scenario the main directory is initialized
\* empty (init, no clone; subrepo its only remote) only when the default
\* main URL is empty too; with a default main URL the main directory is
\* cloned from it (clone, no init; remotes origin and subrepo).  In both
\* cases the sub directory is a clone of the sub URL and main has exactly one
\* remote named subrepo, pointing at the sub directory's absolute path.
C4_ScenarioA ==
    ScenarioA =>
        /\ SubClonedAndLinked
        /\ IF mainGitHubURL = NoURL
           THEN MainInitialized
           ELSE MainClonedFrom(mainGitHubURL)

\* Scenario A with the default main URL of line 8 in place.
C4_Witness == ScenarioA /\ mainGitHubURL = DefaultMainURL /\ Len(cmds) = 4

\* C5.  Provisioning is idempotent: in a setup started after an earlier
\* setup has ended with success on the same directories, no clone and no
\* init is issued, for the main or for the sub directory, and both
\* directories stay as the invocation found them.
C5_ProvisionIdempotent ==
    (setupDone /\ pc # "idle" /\ args.action = "setup") =>
        /\ \A i \in 1..Len(cmds) : cmds[i].name \notin {"clone", "init"}
        /\ repos = pre

\* A second setup, with success, after a first one that cloned both.
C5_Witness ==
    /\ setupDone /\ Exited /\ args.action = "setup" /\ exitCode = ExitOK
    /\ Len(cmds) = 2
    /\ repos[MainDir].state = "cloned" /\ repos[SubDir].state = "cloned"

\* C6.  Linking is idempotent: once setup has linked with success, however
\* often, main has exactly one remote named subrepo and its target is the
\* absolute path of the sub directory, never the relative name; when main
\* already had a remote of that name, the link issues set-url, not add, and
\* a set-url that succeeded has replaced the earlier target.
Linked ==
    /\ Cardinality({r \in repos[MainDir].remotes : r[1] = remote_name}) = 1
    /\ TargetsOf(MainDir, remote_name) = {<<Cwd, args.sub_dir>>}

C6_LinkIdempotent ==
    /\ (setupDone \/ (Exited /\ args.action = "setup" /\ exitCode = ExitOK))
          => Linked
    /\ (pc # "idle" /\ args.action = "setup") =>
          \A i \in 1..Len(cmds) :
              /\ cmds[i].name = "remote add" =>
                    remote_name \notin {r[1] : r \in pre[MainDir].remotes}
              /\ cmds[i].name = "remote set-url" =>
                    remote_name \in {r[1] : r \in pre[MainDir].remotes}
              /\ cmds[i].name \in {"remote add", "remote set-url"} =>
                    /\ cmds[i].remote = remote_name
                    /\ cmds[i].target = <<Cwd, args.sub_dir>>

\* A third successful link; and a link that moved a remote named subrepo
\* from another target to the sub directory.
C6_Witness ==
    /\ Exited /\ args.action = "setup" /\ exitCode = ExitOK
    /\ cmds[Len(cmds)].name = "remote set-url"
    /\ \/ runs = 3 /\ setupDone
       \/ <<remote_name, OldSubrepoTarget>> \in pre[MainDir].remotes

\* C7.  merge without a source branch: the process has exited with a
\* non-zero status and has issued no command, checkout and merge included.
C7_MergeNeedsSource ==
    (pc # "idle" /\ args.action = "merge" /\ args.source_branch = NoBranch) =>
        /\ Exited /\ exitCode # ExitOK /\ exitCode # -1
        /\ cmds = <<>>
        /\ repos = pre

\* merge without a source branch, on a main directory that holds a
\* repository.
C7_Witness ==
    /\ Exited /\ args.action = "merge" /\ args.source_branch = NoBranch
    /\ repos[MainDir].state # "uninitialized"

\* C8.  setup with no sub URL given, no default sub URL and no repository in
\* the sub directory: the process has exited with a non-zero status before
\* any command; no clone and no init of the main repository was issued.
C8_SetupNeedsSubURL ==
    (/\ pc # "idle" /\ args.action = "setup"
     /\ args.sub_repo = NoURL /\ subGitHubURL = NoURL
     /\ pre[SubDir].state = "uninitialized") =>
        /\ Exited /\ exitCode # ExitOK /\ exitCode # -1
        /\ cmds = <<>>
        /\ repos = pre

\* Such a setup, with a main URL given and a main directory to provision.
C8_Witness ==
    /\ Exited /\ args.action = "setup"
    /\ args.sub_repo = NoURL /\ subGitHubURL = NoURL
    /\ pre[SubDir].state = "uninitialized"
    /\ pre[MainDir].state = "uninitialized" /\ args.main_repo # NoURL

\* C9.  commit issues `git add .` first and the commit second, the commit
\* only after the add has succeeded; when the invocation found nothing to
\* commit (no pending, staged or unmerged change), it has exited with a non-zero
\* status by the time it ends and the history has no new commit.
NothingToCommit ==
    ~pre[MainDir].dirty /\ ~pre[MainDir].staged /\ ~pre[MainDir].conflicted

C9_Commit ==
    (pc # "idle" /\ args.action = "commit") =>
        LET n == Len(cmds)
        IN  /\ n <= 2
            /\ n >= 1 => Is(cmds[1], "add", args.main_dir)
            /\ n >= 2 => cmds[1].ok /\ Is(cmds[2], "commit", args.main_dir)
            /\ pc = "commit_commit" => n = 1
            /\ (NothingToCommit /\ Exited) =>
                  /\ exitCode # ExitOK /\ exitCode # -1
                  /\ repos[MainDir].commits = pre[MainDir].commits
            /\ repos[MainDir].commits # pre[MainDir].commits =>
                  /\ n = 2 /\ cmds[2].ok
                  /\ repos[MainDir].commits = pre[MainDir].commits + 1

\* A commit in a repository with nothing to commit: the add succeeded, the
\* commit failed.
C9_Witness ==
    /\ Exited /\ args.action = "commit" /\ NothingToCommit
    /\ Len(cmds) = 2 /\ cmds[1].ok /\ ~cmds[2].ok

\* C10.  The exit status is 0 exactly when the chosen action completed: no
\* configuration error, every command issued returned success, and the last
\* command of the action was reached; otherwise it is non-zero.
LastCommands(action) ==
    CASE action = "setup" -> {"remote add", "remote set-url"}
      [] action = "commit" -> {"commit"}
      [] action = "push" -> {"push"}
      [] action = "pull" -> {"pull"}
      [] action = "merge" -> {"merge"}
      [] action = "sync" -> {"pull"}

IsConfigError ==
    \/ args.action = "setup" /\ args.sub_repo = NoURL /\ subGitHubURL = NoURL
    \/ args.action = "merge" /\ args.source_branch = NoBranch

ActionCompleted ==
    /\ ~IsConfigError
    /\ \A i \in 1..Len(cmds) : cmds[i].ok
    /\ Len(cmds) > 0
    /\ cmds[Len(cmds)].name \in LastCommands(args.action)
    /\ args.action = "sync" => Len(cmds) = 3

C10_ExitStatus ==
    Exited => /\ exitCode \in {ExitOK, FailStatus, ConfigErrorStatus}
              /\ exitCode = ExitOK <=> ActionCompleted

\* Runs of both kinds: a merge that completed, and (in another run) a
\* configuration error.
C10_Witness ==
    /\ Exited
    /\ args.action = "merge" /\ exitCode = ExitOK /\ Len(cmds) = 2

\* C11 as stated.  An invocation enters one of Committing, Pushing, Pulling,
\* Merging, Syncing only as its fourth stage, after Idle, Provisioning and
\* Linked; it enters exactly one of them; it ends in Idle or Aborted.
ActionStates == {"Committing", "Pushing", "Pulling", "Merging", "Syncing"}

C11_Original ==
    /\ \A i \in 1..Len(trail) :
          trail[i] \in ActionStates =>
              /\ i = 4
              /\ SubSeq(trail, 1, 3) = <<"Idle", "Provisioning", "Linked">>
    /\ (Exited /\ exitCode = ExitOK) =>
          Cardinality({i \in 1..Len(trail) : trail[i] \in ActionStates}) = 1
    /\ Exited => trail[Len(trail)] \in {"Idle", "Aborted"}

\* C11, amended.  Every invocation runs one path and ends in Idle or
\* Aborted.  setup runs Idle -> Provisioning -> Linked -> Idle and enters no
\* action state; each other action enters its own action state straight
\* from Idle, without Provisioning or Linked, and no other one; every stage
\* but Idle may be left for Aborted, and the two configuration errors go
\* from Idle to Aborted.
ActionStateOf(action) ==
    CASE action = "commit" -> "Committing"
      [] action = "push" -> "Pushing"
      [] action = "pull" -> "Pulling"
      [] action = "merge" -> "Merging"
      [] action = "sync" -> "Syncing"
      [] OTHER -> "none"

IsPrefix(t, path) == Len(t) <= Len(path) /\ t = SubSeq(path, 1, Len(t))

PathsOf(action) ==
    IF action = "setup"
    THEN {<<"Idle", "Provisioning", "Linked", "Idle">>,
          <<"Idle", "Provisioning", "Linked", "Aborted">>,
          <<"Idle", "Provisioning", "Aborted">>,
          <<"Idle", "Aborted">>}
    ELSE {<<"Idle", ActionStateOf(action), "Idle">>,
          <<"Idle", ActionStateOf(action), "Aborted">>}
            \cup (IF action = "merge" THEN {<<"Idle", "Aborted">>} ELSE {})

C11_Paths ==
    /\ pc # "idle" =>
          /\ \E path \in PathsOf(args.action) : IsPrefix(trail, path)
          /\ Exited <=> (Len(trail) > 1 /\ trail[Len(trail)] \in {"Idle", "Aborted"})
          /\ Exited => trail \in PathsOf(args.action)
          /\ trail[Len(trail)] = StateOf(pc, exitCode)
    /\ pc = "idle" => trail = <<"Idle">>

\* A commit that ran to its end without any provisioning or linking.
C11_Witness ==
    /\ Exited /\ args.action = "commit" /\ exitCode = ExitOK
    /\ trail = <<"Idle", "Committing", "Idle">>
    /\ Len(cmds) = 2

\* C12.  The pull of sync is `git pull origin main` in the sub directory,
\* whatever --branch is; with a branch other than main the branch checked
\* out in step 2 is not the branch pulled in step 3.
C12_SyncPullsDefault ==
    (args.action = "sync" /\ Len(cmds) >= 3) =>
        /\ Is(cmds[3], "pull", args.sub_dir)
        /\ cmds[3].remote = "origin"
        /\ cmds[3].branch = "main"
        /\ cmds[1].branch = args.branch /\ cmds[2].branch = args.branch
        /\ args.branch # "main" => cmds[2].branch # cmds[3].branch

\* A sync of branch dev that reached its pull.
C12_Witness ==
    /\ args.action = "sync" /\ args.branch = "dev"
    /\ Len(cmds) = 3 /\ cmds[2].branch = "dev" /\ cmds[3].branch = "main"

\* C13.  The link step issues set-url exactly when remote_name is one of the
\* names configured on the main repository and add exactly when it is not;
\* names that contain subrepo (subrepo2) or are contained in it (sub) do not
\* count.
C13_ExactMatch ==
    [][pc = "link_set" =>
          LET c == cmds'[Len(cmds')]
              configured == remote_name \in RemoteNamesOf(MainDir)
          IN  /\ Len(cmds') = Len(cmds) + 1
              /\ c.name \in {"remote set-url", "remote add"}
              /\ c.name = "remote set-url" <=> configured
              /\ c.name = "remote add" <=> ~configured]_vars

\* A link on a main repository with remotes sub and subrepo2 and none named
\* subrepo: add was issued, and succeeded.
C13_Witness ==
    /\ Exited /\ args.action = "setup" /\ exitCode = ExitOK
    /\ {"sub", "subrepo2"} \subseteq {r[1] : r \in pre[MainDir].remotes}
    /\ remote_name \notin {r[1] : r \in pre[MainDir].remotes}
    /\ cmds[Len(cmds)].name = "remote add"

\* C14.  merge issues the checkout of the target branch (--branch) first and
\* the merge of the source branch second, the merge only after the checkout
\* has succeeded; after a failed merge nothing more is issued (no abort, no
\* reset), the process has exited with a non-zero status, and a conflict the
\* merge left is still in the working tree.
C14_MergeOrder ==
    (pc # "idle" /\ args.action = "merge") =>
        LET n == Len(cmds)
        IN  /\ n <= 2
            /\ \A i \in 1..n : cmds[i].name \in {"checkout", "merge"}
            /\ n >= 1 => /\ Is(cmds[1], "checkout", args.main_dir)
                         /\ cmds[1].branch = args.branch
            /\ n >= 2 => /\ cmds[1].ok
                         /\ Is(cmds[2], "merge", args.main_dir)
                         /\ cmds[2].branch = args.source_branch
            /\ pc = "merge_checkout" => n = 0
            /\ pc = "merge_merge" => n = 1
            /\ (n = 2 /\ ~cmds[2].ok) =>
                  /\ Exited /\ exitCode # ExitOK /\ exitCode # -1
                  /\ pre[MainDir].conflicted => repos[MainDir].conflicted
                  /\ repos[MainDir].commits = pre[MainDir].commits
            /\ repos[MainDir].conflicted # pre[MainDir].conflicted =>
                  n = 2 /\ ~cmds[2].ok /\ repos[MainDir].conflicted

\* A merge of feature into dev that failed and left a conflict.
C14_Witness ==
    /\ Exited /\ args.action = "merge" /\ args.branch = "dev"
    /\ Len(cmds) = 2 /\ cmds[1].ok /\ ~cmds[2].ok
    /\ repos[MainDir].conflicted /\ ~pre[MainDir].conflicted

\* C15.  setup with no sub URL given and no default sub URL, on a sub
\* directory that already holds a repository: no error is raised for the
\* missing URL, and when the commands it issues succeed the setup ends with
\* status 0 and has performed the link step.
SetupWithoutSubURL ==
    /\ pc # "idle" /\ args.action = "setup"
    /\ args.sub_repo = NoURL /\ subGitHubURL = NoURL

C15_ExistingSubNeedsNoURL ==
    (/\ SetupWithoutSubURL
     /\ pre[SubDir].state # "uninitialized"
     /\ Exited
     /\ \A i \in 1..Len(cmds) : cmds[i].ok) =>
        /\ exitCode = ExitOK
        /\ \E i \in 1..Len(cmds) :
              cmds[i].name \in {"remote add", "remote set-url"}

\* C16.  The existence state of a directory changes only from uninitialized
\* to initialized-empty or cloned (hence at most once, and never back), and
\* only in a provisioning step of setup; commit, push, pull, merge, sync and
\* the link step leave it as it is.
C16_ExistenceOnce ==
    [][\A d \in Dirs :
          repos'[d].state # repos[d].state =>
              /\ repos[d].state = "uninitialized"
              /\ repos'[d].state \in {"initialized-empty", "cloned"}
              /\ args.action = "setup"
              /\ pc \in {"provision_main", "provision_sub"}
              /\ d = (IF pc = "provision_main" THEN MainDir ELSE SubDir)]_vars

\* A setup that initialized the main directory and cloned the sub directory.
C16_Witness ==
    /\ args.action = "setup" /\ pc = "link_list"
    /\ pre[MainDir].state = "uninitialized"
    /\ repos[MainDir].state = "initialized-empty"
    /\ pre[SubDir].state = "uninitialized"
    /\ repos[SubDir].state = "cloned"

\* C17.  push issues one command in an invocation, `git push subrepo
\* <branch>` in the main directory: a rejected push is not issued again and
\* nothing else (a forced push) is issued after it; the process has exited
\* with a non-zero status.
C17_PushOnce ==
    (pc # "idle" /\ args.action = "push") =>
        /\ Len(cmds) <= 1
        /\ pc = "push" <=> Len(cmds) = 0
        /\ \A i \in 1..Len(cmds) :
              /\ Is(cmds[i], "push", args.main_dir)
              /\ cmds[i].remote = "subrepo"
              /\ cmds[i].branch = args.branch
              /\ ~cmds[i].ok => Exited /\ exitCode # ExitOK /\ exitCode # -1
              /\ ~cmds[i].ok => repos = pre

\* A push of dev that was rejected although the remote could be reached.
C17_Witness ==
    /\ Exited /\ args.action = "push" /\ args.branch = "dev"
    /\ Len(cmds) = 1 /\ ~cmds[1].ok
    /\ abspath(args.sub_dir) \in TargetsOf(MainDir, "subrepo")
    /\ repos[SubDir].state # "uninitialized"

\* C18 as stated.  commit, push, pull and merge issue every command with the
\* main directory as working directory and leave the sub directory as they
\* found it; a command whose working directory or destination is the sub
\* directory is issued by setup or sync only.
MainOnlyActions == {"commit", "push", "pull", "merge"}

InMainDir ==
    \A i \in 1..Len(cmds) : cmds[i].cwd = args.main_dir /\ cmds[i].dir = ""

OnSubDirOnlyBySetupOrSync ==
    (\E i \in 1..Len(cmds) :
        cmds[i].cwd = args.sub_dir \/ cmds[i].dir = args.sub_dir)
            => args.action \in {"setup", "sync"}

C18_Original ==
    /\ (pc # "idle" /\ args.action \in MainOnlyActions) =>
          InMainDir /\ repos[SubDir] = pre[SubDir]
    /\ OnSubDirOnlyBySetupOrSync

\* C18, amended.  commit, push, pull and merge issue every command with the
\* main directory as working directory; commit, pull and merge leave the sub
\* directory as they found it, while a push that succeeds delivers main's
\* history to the sub repository through the remote subrepo and changes
\* nothing else there; a command whose working directory or destination is
\* the sub directory is issued by setup or sync only.
C18_Frame ==
    /\ (pc # "idle" /\ args.action \in MainOnlyActions) =>
          /\ InMainDir
          /\ IF args.action = "push"
             THEN /\ [repos[SubDir] EXCEPT !.received = 0]
                        = [pre[SubDir] EXCEPT !.received = 0]
                  /\ repos[SubDir] # pre[SubDir] =>
                        /\ Len(cmds) = 1 /\ cmds[1].ok
                        /\ SubDir \in TargetsOf(MainDir, "subrepo")
                        /\ repos[SubDir].received = repos[MainDir].commits
             ELSE repos[SubDir] = pre[SubDir]
    /\ OnSubDirOnlyBySetupOrSync

\* A push from the main directory that changed what the sub repository
\* holds.
C18_Witness ==
    /\ Exited /\ args.action = "push" /\ exitCode = ExitOK
    /\ InMainDir
    /\ repos[SubDir].received # pre[SubDir].received

\* C19.  In setup the remote is listed and linked only once both
\* directories hold a repository.  When the provisioning of the sub
\* directory has failed, the process has exited with a non-zero status, no
\* `git remote` command of any kind was issued, a main repository that was
\* cloned or initialized by the run is still there, and main's remotes named
\* subrepo are those the run found.
LinkCommands == {"remote", "remote add", "remote set-url"}

SubrepoRemotes(dir) == {r \in dir.remotes : r[1] = remote_name}

C19_LinkAfterProvision ==
    (pc # "idle" /\ args.action = "setup") =>
        /\ (\/ pc \in {"link_list", "link_set"}
            \/ \E i \in 1..Len(cmds) : cmds[i].name \in LinkCommands) =>
              /\ repos[MainDir].state # "uninitialized"
              /\ repos[SubDir].state # "uninitialized"
        /\ \A i, j \in 1..Len(cmds) :
              (cmds[i].name \in LinkCommands /\ cmds[j].name \in {"clone", "init"})
                  => j < i /\ cmds[j].ok
        /\ (Exited /\ repos[SubDir].state = "uninitialized") =>
              /\ exitCode # ExitOK /\ exitCode # -1
              /\ \A i \in 1..Len(cmds) : cmds[i].name \notin LinkCommands
              /\ SubrepoRemotes(repos[MainDir]) = SubrepoRemotes(pre[MainDir])
              /\ (Len(cmds) >= 1 /\ cmds[1].ok) =>
                    /\ cmds[1].name \in {"clone", "init"}
                    /\ repos[MainDir].state =
                          (IF cmds[1].name = "clone" THEN "cloned"
                                                     ELSE "initialized-empty")

\* A setup that cloned the main repository and then failed to clone the sub
\* repository.
C19_Witness ==
    /\ Exited /\ args.action = "setup"
    /\ Len(cmds) = 2
    /\ cmds[1].name = "clone" /\ cmds[1].ok
    /\ cmds[2].name = "clone" /\ cmds[2].dir = args.sub_dir /\ ~cmds[2].ok
    /\ repos[MainDir].state = "cloned" /\ pre[MainDir].state = "uninitialized"

\* C20.  When every external command returns, every invocation ends (with
\* status 0 or not) after at most 4 commands for setup, 3 for sync, 2 for
\* merge, 2 for commit, 1 for push and 1 for pull, and issues no command
\* line twice.
MostCommands(action) ==
    CASE action = "setup" -> 4
      [] action = "sync" -> 3
      [] action \in {"merge", "commit"} -> 2
      [] action \in {"push", "pull"} -> 1

CommandsBounded ==
    pc # "idle" =>
        /\ Len(cmds) <= MostCommands(args.action)
        /\ \A i, j \in 1..Len(cmds) :
              i # j => [cmds[i] EXCEPT !.ok = TRUE] # [cmds[j] EXCEPT !.ok = TRUE]

C20_Terminates ==
    /\ []CommandsBounded
    /\ (pc \notin {"idle", "exited"}) ~> (pc = "exited" /\ exitCode \in {ExitOK, FailStatus})

\* A setup that needed all four commands, and ended.
C20_Witness ==
    /\ Exited /\ args.action = "setup" /\ Len(cmds) = 4
    /\ cmds[1].name = "init" /\ cmds[4].name = "remote add"

====
